---------------------------- MODULE Spec2Model ----------------------------
(***************************************************************************)
(* A model of hidg.go: the USB HID boot-keyboard report engine             *)
(* (UsbHid.updateReport), the worker goroutine that serialises report      *)
(* writes (eventWriter), the session handle (Open / ForwardEvent / Close)  *)
(* and the key synthesis done by main for every terminal keystroke.        *)
(***************************************************************************)
EXTENDS Integers, Sequences, FiniteSets, TLC

VARIABLES
  report,    \* hid.report : [8]byte, indexed 0..7
  keys,      \* hid.keys   : number of active key slots
  wpc,       \* position of the eventWriter goroutine
  cur,       \* the event eventWriter received last (ev of the select case)
  fileOpen,  \* hid.file is open
  device,    \* history: the byte strings the device accepted, one per Write
  synced,    \* history: number of hid.file.Sync() calls made
  taken,     \* history: <<producer, event>> in the order eventWriter received them
  handed,    \* history: per producer, the events passed to ForwardEvent, in program order
  prod,      \* per producer: what it is blocked on and what it still has to send
  calls,     \* number of producer operations started
  held,      \* history: modifier codes whose most recent key event had Value # 0
  phase,     \* history: shape of the updateReport call sequence so far
  downs,     \* history: usage IDs of the leading run of distinct key-down calls
  released   \* history: usage ID released by the single Up that follows that run

vars == << report, keys, wpc, cur, fileOpen, device, synced, taken, handed,
           prod, calls, held, phase, downs, released >>

---------------------------------------------------------------------------
(* Constants of the program and of the libraries it is compiled against.   *)

\* evdev.EvKeys (EV_KEY)
EvKeys == 1
\* evdev.KeyLeftCtrl
KeyLeftCtrl == 29
\* evdev.KeyLeftShift
KeyLeftShift == 42
\* len(hid.report)
ReportLen == 8

\* var mapping []byte: Go index c is mapping[c + 1] here
mapping ==
  << 3, 41, 30, 31, 32, 33, 34, 35, 36, 37, 38,
     39, 45, 46, 42, 43, 20, 26, 8, 21, 23, 28, 24, 12, 18, 19,
     47, 48, 40, 224, 4, 22, 7, 9, 10, 11, 13, 14, 15, 51, 52,
     53, 225, 50, 29, 27, 6, 25, 5, 17, 16, 54, 55, 56, 229, 85,
     226, 44, 57, 58, 59, 60, 61, 62, 63, 64, 65, 66, 67, 83,
     71, 95, 96, 97, 86, 92, 93, 94, 87, 89, 90, 91, 98, 99, 0,
     148, 100, 68, 69, 135, 146, 147, 138, 136, 139, 140, 88, 228,
     84, 70, 230, 0, 74, 82, 75, 80, 79, 77, 81, 78, 73, 76, 0,
     239, 238, 237, 102, 103, 0, 72, 0, 133, 144, 145, 137, 227,
     231, 101, 243, 121, 118, 122, 119, 124, 116, 125, 244, 123,
     117, 0, 251, 0, 248, 0, 0, 0, 0, 0, 0, 0, 240, 0,
     249, 0, 0, 0, 0, 0, 241, 242, 0, 236, 0, 235, 232, 234,
     233, 0, 0, 0, 0, 0, 0, 250, 0, 0, 247, 245, 246, 182,
     183, 0, 0, 104, 105, 106, 107, 108, 109, 110, 111, 112, 113,
     114 >>

\* mapping[code] is an index expression on a slice: it panics outside 0..len-1
mappingInRange(code) == code >= 0 /\ code < Len(mapping)

\* the value of mapping[code] for a code in range
mappingAt(code) == mapping[code + 1]

\* var kb_mod map[uint16]byte: a missing key reads as 0
kb_mod(code) ==
  CASE code = 29  -> 1
    [] code = 97  -> 16
    [] code = 42  -> 2
    [] code = 54  -> 32
    [] code = 56  -> 4
    [] code = 100 -> 64
    [] code = 125 -> 8
    [] code = 126 -> 128
    [] OTHER      -> 0

---------------------------------------------------------------------------
(* Byte arithmetic.                                                        *)

RECURSIVE bitOr(_, _)
\* a | b on bytes
bitOr(a, b) ==
  IF a = 0 /\ b = 0 THEN 0
  ELSE (IF a % 2 = 1 \/ b % 2 = 1 THEN 1 ELSE 0) + 2 * bitOr(a \div 2, b \div 2)

RECURSIVE bitAndNot(_, _)
\* a &^ b on bytes
bitAndNot(a, b) ==
  IF a = 0 THEN 0
  ELSE (IF a % 2 = 1 /\ b % 2 = 0 THEN 1 ELSE 0) + 2 * bitAndNot(a \div 2, b \div 2)

\* the zero value of [8]byte
ZeroReport == [i \in 0 .. ReportLen - 1 |-> 0]

---------------------------------------------------------------------------
(* UsbHid.updateReport                                                     *)

\* variant of modifierDown: the bit is assigned instead of or-ed in
modifierDown_assign(rep, m) == [rep EXCEPT ![0] = m]

\* hid.report[0] |= kb_mod[ev.Code]
modifierDown(rep, m) == [rep EXCEPT ![0] = bitOr(rep[0], m)]

\* hid.report[0] &^= kb_mod[ev.Code]
modifierUp(rep, m) == [rep EXCEPT ![0] = bitAndNot(rep[0], m)]

\* variant of findKey: the search stops one slot short of the active prefix
findKey_short(rep, k, u) ==
  LET hits == {i \in 0 .. k - 2 : rep[2 + i] = u}
  IN  IF hits = {} THEN -1 ELSE CHOOSE i \in hits : \A j \in hits : i <= j

\* the search loop over hid.report[2 : 2+hid.keys]: first index holding u, or -1
findKey(rep, k, u) ==
  LET hits == {i \in 0 .. k - 1 : rep[2 + i] = u}
  IN  IF hits = {} THEN -1 ELSE CHOOSE i \in hits : \A j \in hits : i <= j

\* variant of removeKey: the found slot is zeroed, the last one is not moved
removeKey_hole(rep, k, keyPos) ==
  [report |-> [rep EXCEPT ![keyPos + 2] = 0], keys |-> k - 1]

\* variant of removeKey: the last active slot is zeroed without being moved
removeKey_noMove(rep, k, keyPos) ==
  [report |-> [rep EXCEPT ![k + 1] = 0], keys |-> k - 1]

\* the branch keyPos # -1, ev.Value = 0: move the last active slot into keyPos
removeKey(rep, k, keyPos) ==
  LET moved == IF k > keyPos THEN [rep EXCEPT ![keyPos + 2] = rep[k + 1]] ELSE rep
  IN  [report |-> [moved EXCEPT ![k + 1] = 0], keys |-> k - 1]

\* variant of insertKey: a key pressed while all slots are taken is ignored
insertKey_dropWhenFull(rep, k, u) ==
  IF k < ReportLen - 2
  THEN [report |-> [rep EXCEPT ![2 + k] = u], keys |-> k + 1]
  ELSE [report |-> rep, keys |-> k]

\* the branch keyPos = -1: append, or overwrite the last slot when all are taken
insertKey(rep, k, u) ==
  IF k < ReportLen - 2
  THEN [report |-> [rep EXCEPT ![2 + k] = u], keys |-> k + 1]
  ELSE [report |-> [rep EXCEPT ![ReportLen - 1] = u], keys |-> k]

\* the normal-key branch once mapping[ev.Code] is known to be non-zero
updateKey(rep, k, ev) ==
  LET u      == mappingAt(ev.Code)
      keyPos == findKey(rep, k, u)
  IN  IF keyPos # -1
      THEN IF ev.Value = 0 THEN removeKey(rep, k, keyPos)
                           ELSE [report |-> rep, keys |-> k]
      ELSE insertKey(rep, k, u)

\* the modifier branch
updateModifier(rep, ev) ==
  IF ev.Value # 0 THEN modifierDown(rep, kb_mod(ev.Code))
                  ELSE modifierUp(rep, kb_mod(ev.Code))

\* whether updateReport(ev) panics: an index or a slice bound out of range
updatePanics(k, ev) ==
  /\ ev.Type = EvKeys
  /\ kb_mod(ev.Code) = 0
  /\ \/ ~mappingInRange(ev.Code)
     \/ mappingAt(ev.Code) # 0 /\ (k < 0 \/ 2 + k > ReportLen)

\* variant of updateReport: the test mapping[ev.Code] == 0 is missing
updateReport_noUnmappedTest(rep, k, ev) ==
  IF ev.Type # EvKeys THEN [report |-> rep, keys |-> k]
  ELSE IF kb_mod(ev.Code) # 0 THEN [report |-> updateModifier(rep, ev), keys |-> k]
  ELSE updateKey(rep, k, ev)

\* the state updateReport leaves behind when it returns
updateReport(rep, k, ev) ==
  IF ev.Type # EvKeys THEN [report |-> rep, keys |-> k]
  ELSE IF kb_mod(ev.Code) # 0 THEN [report |-> updateModifier(rep, ev), keys |-> k]
  ELSE IF mappingAt(ev.Code) = 0 THEN [report |-> rep, keys |-> k]
  ELSE updateKey(rep, k, ev)

---------------------------------------------------------------------------
(* Key synthesis in main: a terminal keystroke becomes a list of events.   *)

\* evdev.KeyA .. evdev.KeyZ, in alphabetical order
letterKeys ==
  << 30, 48, 46, 32, 18, 33, 34, 35, 23, 36, 37, 38, 50,
     49, 24, 25, 16, 19, 31, 20, 22, 47, 17, 45, 21, 44 >>

\* var tcelltoev map[rune]uint16: a missing key reads as 0
tcelltoev(r) ==
  CASE r = 48 -> 11                       \* '0': Key0
    [] r \in 49 .. 57 -> r - 47           \* '1'..'9': Key1..Key9
    [] r \in 97 .. 122 -> letterKeys[r - 96]
    [] r = 32  -> 57                      \* ' ': KeySpace
    [] r = 61  -> 13                      \* '=': KeyEqual
    [] r = 44  -> 51                      \* ',': KeyComma
    [] r = 46  -> 52                      \* '.': KeyDot
    [] r = 91  -> 26                      \* '[': KeyLeftBrace
    [] r = 93  -> 27                      \* ']': KeyRightBrace
    [] r = 59  -> 39                      \* ';': KeySemiColon
    [] r = 39  -> 40                      \* '\'': KeyApostrophe
    [] r = 47  -> 53                      \* '/': KeySlash
    [] r = 92  -> 43                      \* '\\': KeyBackSlash
    [] r = 127 -> 14                      \* tcell.KeyBackspace2: KeyBackSpace
    [] r = 8   -> 14                      \* tcell.KeyBackspace: KeyBackSpace
    [] r = 13  -> 28                      \* tcell.KeyEnter: KeyEnter
    [] r = 257 -> 103                     \* tcell.KeyUp: KeyUp
    [] r = 258 -> 108                     \* tcell.KeyDown: KeyDown
    [] r = 260 -> 105                     \* tcell.KeyLeft: KeyLeft
    [] r = 259 -> 106                     \* tcell.KeyRight: KeyRight
    [] r = 9   -> 15                      \* tcell.KeyTAB: KeyTab
    [] r = 27  -> 1                       \* tcell.KeyEsc: KeyEscape
    [] OTHER   -> 0

\* variant of tcellctrltoev: the table is read one entry too far
tcellctrltoev_shifted(r) == IF r \in 0 .. 25 THEN letterKeys[r + 1] ELSE 0

\* var tcellctrltoev map[rune]uint16, keyed by tcell.KeyCtrlA (1) .. tcell.KeyCtrlZ (26)
tcellctrltoev(r) == IF r \in 1 .. 26 THEN letterKeys[r] ELSE 0

\* the keys of var tcellshiftokey
shiftRunes == {33, 64, 35, 36, 37, 94, 38, 42, 40, 41, 95, 43, 123, 125, 34, 47, 60, 62, 124}

\* var tcellshiftokey map[rune]uint16
tcellshiftokey(r) ==
  CASE r = 33  -> 2                       \* '!': Key1
    [] r = 64  -> 3                       \* '@': Key2
    [] r = 35  -> 4                       \* '#': Key3
    [] r = 36  -> 5                       \* '$': Key4
    [] r = 37  -> 6                       \* '%': Key5
    [] r = 94  -> 7                       \* '^': Key6
    [] r = 38  -> 8                       \* '&': Key7
    [] r = 42  -> 9                       \* '*': Key8
    [] r = 40  -> 10                      \* '(': Key9
    [] r = 41  -> 11                      \* ')': Key0
    [] r = 95  -> 12                      \* '_': KeyMinus
    [] r = 43  -> 13                      \* '+': KeyEqual
    [] r = 123 -> 26                      \* '{': KeyLeftBrace
    [] r = 125 -> 27                      \* '}': KeyRightBrace
    [] r = 34  -> 40                      \* '"': KeyApostrophe
    [] r = 47  -> 53                      \* '/': KeySlash
    [] r = 60  -> 51                      \* '<': KeyComma
    [] r = 62  -> 52                      \* '>': KeyDot
    [] r = 124 -> 43                      \* '|': KeyBackSlash
    [] OTHER   -> 0

\* evdev.Event{Type: evdev.EvKeys, Code: code, Value: value}
KeyEv(code, value) == [Type |-> EvKeys, Code |-> code, Value |-> value]

\* the ev.Modifiers()&tcell.ModCtrl != 0 branch of main
ctrlChord(r) ==
  LET key == tcellctrltoev(r)
  IN  << KeyEv(KeyLeftCtrl, 1), KeyEv(key, 1), KeyEv(key, 0), KeyEv(KeyLeftCtrl, 0) >>

\* variant of plainKeystroke: the shift key is never released
plainKeystroke_noShiftUp(r) ==
  LET inShift == r \in shiftRunes
      upper   == ~inShift /\ r >= 65 /\ r <= 90
      key     == IF inShift THEN tcellshiftokey(r)
                 ELSE tcelltoev(IF upper THEN r + (97 - 65) ELSE r)
  IN  (IF inShift \/ upper THEN << KeyEv(KeyLeftShift, 1) >> ELSE << >>)
      \o << KeyEv(key, 1), KeyEv(key, 0) >>

\* the else branch of main: shifted punctuation, upper-case letter, or plain rune
plainKeystroke(r) ==
  LET inShift == r \in shiftRunes
      upper   == ~inShift /\ r >= 65 /\ r <= 90
      shifted == inShift \/ upper
      key     == IF inShift THEN tcellshiftokey(r)
                 ELSE tcelltoev(IF upper THEN r + (97 - 65) ELSE r)
  IN  (IF shifted THEN << KeyEv(KeyLeftShift, 1) >> ELSE << >>)
      \o << KeyEv(key, 1), KeyEv(key, 0) >>
      \o (IF shifted THEN << KeyEv(KeyLeftShift, 0) >> ELSE << >>)

\* case *tcell.EventKey of main: the ForwardEvent calls it makes, in order
keystrokeEvents(r, ctrl) == IF ctrl THEN ctrlChord(r) ELSE plainKeystroke(r)

---------------------------------------------------------------------------
(* Bounds and sampled inputs.                                              *)

\* producer operations (keystrokes, ForwardEvent calls, Close calls) per run
MaxCalls == 2

\* the goroutines calling into the session
Procs == {"p1", "p2"}

\* event codes fed to updateReport: seven mapped keys (code 0 maps to usage 3),
\* two modifiers, an unmapped code, and the first code past the end of mapping
SampleCodes == {0, 30, 48, 46, 32, 18, 33, KeyLeftCtrl, KeyLeftShift, 84, Len(mapping)}

\* an event whose Type is not EvKeys (EV_SYN)
NonKeyEvent == [Type |-> 0, Code |-> 30, Value |-> 1]

\* the events SpecReport applies
ReportEvents ==
  {KeyEv(c, v) : c \in SampleCodes, v \in {0, 1}}
    \cup {KeyEv(KeyLeftCtrl, 2), KeyEv(30, 2), NonKeyEvent}

\* the events handed directly to ForwardEvent in Spec
RawEvents ==
  { KeyEv(30, 1), KeyEv(30, 0), KeyEv(84, 1), KeyEv(Len(mapping), 1), NonKeyEvent }

\* the keystrokes main receives in Spec: <<rune, control held>>
\* Ctrl-C, 'c', 'A', '!', '?' (in no table)
Keystrokes ==
  { << 3, TRUE >>, << 99, FALSE >>, << 65, FALSE >>, << 33, FALSE >>, << 63, FALSE >> }

\* byte counts a failing Write may report
ShortCounts == {7}

---------------------------------------------------------------------------
(* State after Open.                                                       *)

NoEvent == [Type |-> 0, Code |-> 0, Value |-> 0]

Init ==
  /\ report = ZeroReport
  /\ keys = 0
  /\ wpc = "select"
  /\ cur = NoEvent
  /\ fileOpen = TRUE
  /\ device = << >>
  /\ synced = 0
  /\ taken = << >>
  /\ handed = [p \in Procs |-> << >>]
  /\ prod = [p \in Procs |-> [pc |-> "idle", out |-> << >>]]
  /\ calls = 0
  /\ held = {}
  /\ phase = "downs"
  /\ downs = << >>
  /\ released = 0

---------------------------------------------------------------------------
(* History of the updateReport calls, computed from the events alone.      *)

IsKeyDown(ev) == ev.Type = EvKeys /\ ev.Value # 0
IsKeyUp(ev) == ev.Type = EvKeys /\ ev.Value = 0
IsModifier(ev) == ev.Type = EvKeys /\ kb_mod(ev.Code) # 0
IsMappedKey(ev) ==
  /\ ev.Type = EvKeys
  /\ kb_mod(ev.Code) = 0
  /\ mappingInRange(ev.Code)
  /\ mappingAt(ev.Code) # 0
IsUnmappedKey(ev) ==
  /\ ev.Type = EvKeys
  /\ kb_mod(ev.Code) = 0
  /\ mappingInRange(ev.Code)
  /\ mappingAt(ev.Code) = 0

Range(s) == {s[i] : i \in 1 .. Len(s)}

Record(ev) ==
  /\ held' = IF IsModifier(ev)
             THEN (IF ev.Value # 0 THEN held \cup {ev.Code} ELSE held \ {ev.Code})
             ELSE held
  /\ IF /\ phase = "downs" /\ IsMappedKey(ev) /\ IsKeyDown(ev)
        /\ mappingAt(ev.Code) \notin Range(downs) /\ Len(downs) < ReportLen - 1
     THEN /\ downs' = Append(downs, mappingAt(ev.Code))
          /\ UNCHANGED << phase, released >>
     ELSE IF /\ phase = "downs" /\ IsMappedKey(ev) /\ IsKeyUp(ev)
             /\ mappingAt(ev.Code) \in Range(downs) /\ Len(downs) <= ReportLen - 2
     THEN /\ phase' = "up1"
          /\ released' = mappingAt(ev.Code)
          /\ UNCHANGED downs
     ELSE IF /\ phase = "downs" /\ IsMappedKey(ev) /\ IsKeyDown(ev)
             /\ mappingAt(ev.Code) \in Range(downs) /\ Len(downs) <= ReportLen - 2
     THEN /\ phase' = "redown"
          /\ UNCHANGED << downs, released >>
     ELSE /\ phase' = "other"
          /\ downs' = << >>
          /\ released' = 0

---------------------------------------------------------------------------
(* SpecReport: updateReport called on any sequence of events.              *)

CallUpdateReport(ev) ==
  /\ wpc = "select"
  /\ IF updatePanics(keys, ev)
     THEN /\ wpc' = "panicked"
          /\ UNCHANGED << report, keys, held, phase, downs, released >>
     ELSE /\ report' = updateReport(report, keys, ev).report
          /\ keys' = updateReport(report, keys, ev).keys
          /\ Record(ev)
          /\ UNCHANGED wpc
  /\ UNCHANGED << cur, fileOpen, device, synced, taken, handed, prod, calls >>

NextReport == \E ev \in ReportEvents : CallUpdateReport(ev)

SpecReport == Init /\ [][NextReport]_vars

---------------------------------------------------------------------------
(* Spec: producers, the channels hid.ev and hid.exit, and eventWriter.     *)

\* the first n bytes of hid.report[:], as the device receives them
reportBytes(rep, n) == [i \in 1 .. n |-> rep[i - 1]]

\* a producer starts the EventKey case of main for one keystroke
StartKeystroke(p, ks) ==
  /\ wpc # "panicked"
  /\ prod[p].pc = "idle"
  /\ calls < MaxCalls
  /\ calls' = calls + 1
  /\ prod' = [prod EXCEPT ![p] = [pc |-> "send", out |-> keystrokeEvents(ks[1], ks[2])]]
  /\ handed' = [handed EXCEPT ![p] = handed[p] \o keystrokeEvents(ks[1], ks[2])]
  /\ UNCHANGED << report, keys, wpc, cur, fileOpen, device, synced, taken,
                  held, phase, downs, released >>

\* a producer calls hid.ForwardEvent(ev), as Test does
StartForward(p, ev) ==
  /\ wpc # "panicked"
  /\ prod[p].pc = "idle"
  /\ calls < MaxCalls
  /\ calls' = calls + 1
  /\ prod' = [prod EXCEPT ![p] = [pc |-> "send", out |-> << ev >>]]
  /\ handed' = [handed EXCEPT ![p] = Append(handed[p], ev)]
  /\ UNCHANGED << report, keys, wpc, cur, fileOpen, device, synced, taken,
                  held, phase, downs, released >>

\* a producer calls hid.Close() and blocks on hid.exit <- true
StartClose(p) ==
  /\ wpc # "panicked"
  /\ prod[p].pc = "idle"
  /\ calls < MaxCalls
  /\ calls' = calls + 1
  /\ prod' = [prod EXCEPT ![p] = [pc |-> "close", out |-> << >>]]
  /\ UNCHANGED << report, keys, wpc, cur, fileOpen, device, synced, taken, handed,
                  held, phase, downs, released >>

\* variant of RecvEvent: hid.ev is buffered, a send completes while the worker is busy
RecvEvent_buffered(p) ==
  /\ wpc \in {"select", "write", "sync"}
  /\ prod[p].pc = "send"
  /\ cur' = Head(prod[p].out)
  /\ taken' = Append(taken, << p, Head(prod[p].out) >>)
  /\ prod' = [prod EXCEPT ![p] =
                IF Len(prod[p].out) = 1 THEN [pc |-> "idle", out |-> << >>]
                ELSE [pc |-> "send", out |-> Tail(prod[p].out)]]
  /\ wpc' = "apply"
  /\ UNCHANGED << report, keys, fileOpen, device, synced, handed, calls,
                  held, phase, downs, released >>

\* case ev := <-hid.ev: the rendezvous with the producer blocked in hid.ev <- ev
RecvEvent(p) ==
  /\ wpc = "select"
  /\ prod[p].pc = "send"
  /\ cur' = Head(prod[p].out)
  /\ taken' = Append(taken, << p, Head(prod[p].out) >>)
  /\ prod' = [prod EXCEPT ![p] =
                IF Len(prod[p].out) = 1 THEN [pc |-> "idle", out |-> << >>]
                ELSE [pc |-> "send", out |-> Tail(prod[p].out)]]
  /\ wpc' = "apply"
  /\ UNCHANGED << report, keys, fileOpen, device, synced, handed, calls,
                  held, phase, downs, released >>

\* variant of RecvExit: the worker acknowledges the signal and keeps serving
RecvExit_keepsServing(p) ==
  /\ wpc = "select"
  /\ prod[p].pc = "close"
  /\ prod' = [prod EXCEPT ![p] = [pc |-> "returned", out |-> << >>]]
  /\ UNCHANGED << report, keys, wpc, cur, fileOpen, device, synced, taken, handed,
                  calls, held, phase, downs, released >>

\* variant of RecvExit: pending events are drained before the signal is taken
RecvExit_drainsFirst(p) ==
  /\ wpc = "select"
  /\ prod[p].pc = "close"
  /\ \A q \in Procs : prod[q].pc # "send"
  /\ prod' = [prod EXCEPT ![p] = [pc |-> "returned", out |-> << >>]]
  /\ wpc' = "exited"
  /\ fileOpen' = FALSE
  /\ UNCHANGED << report, keys, cur, device, synced, taken, handed, calls,
                  held, phase, downs, released >>

\* variant of RecvExit: the signal is also taken between updateReport and Write
RecvExit_midEvent(p) ==
  /\ wpc \in {"select", "write"}
  /\ prod[p].pc = "close"
  /\ prod' = [prod EXCEPT ![p] = [pc |-> "returned", out |-> << >>]]
  /\ wpc' = "exited"
  /\ fileOpen' = FALSE
  /\ UNCHANGED << report, keys, cur, device, synced, taken, handed, calls,
                  held, phase, downs, released >>

\* case <-hid.exit: return, and the deferred hid.file.Close() runs; Close
\* returns to its caller, whose last act it was (defer hid.Close() in Test and main)
RecvExit(p) ==
  /\ wpc = "select"
  /\ prod[p].pc = "close"
  /\ prod' = [prod EXCEPT ![p] = [pc |-> "returned", out |-> << >>]]
  /\ wpc' = "exited"
  /\ fileOpen' = FALSE
  /\ UNCHANGED << report, keys, cur, device, synced, taken, handed, calls,
                  held, phase, downs, released >>

\* hid.updateReport(ev); a panic in it ends the process
WorkerApply ==
  /\ wpc = "apply"
  /\ IF updatePanics(keys, cur)
     THEN /\ wpc' = "panicked"
          /\ UNCHANGED << report, keys, held, phase, downs, released >>
     ELSE /\ report' = updateReport(report, keys, cur).report
          /\ keys' = updateReport(report, keys, cur).keys
          /\ Record(cur)
          /\ wpc' = "write"
  /\ UNCHANGED << cur, fileOpen, device, synced, taken, handed, prod, calls >>

\* n, _ := hid.file.Write(hid.report[:]) with n = len(hid.report)
WorkerWrite ==
  /\ wpc = "write"
  /\ device' = Append(device, reportBytes(report, ReportLen))
  /\ wpc' = "sync"
  /\ UNCHANGED << report, keys, cur, fileOpen, synced, taken, handed, prod, calls,
                  held, phase, downs, released >>

\* variant of WorkerShortWrite: the return skips the deferred hid.file.Close()
WorkerShortWrite_noDefer(n) ==
  /\ wpc = "write"
  /\ device' = Append(device, reportBytes(report, n))
  /\ wpc' = "exited"
  /\ UNCHANGED << report, keys, cur, fileOpen, synced, taken, handed, prod, calls,
                  held, phase, downs, released >>

\* variant of WorkerShortWrite: the failure is logged and the loop goes on
WorkerShortWrite_goesOn(n) ==
  /\ wpc = "write"
  /\ device' = Append(device, reportBytes(report, n))
  /\ wpc' = "sync"
  /\ UNCHANGED << report, keys, cur, fileOpen, synced, taken, handed, prod, calls,
                  held, phase, downs, released >>

\* the same Write accepting n # len(hid.report) bytes: "ERROR: Write failed", return
WorkerShortWrite(n) ==
  /\ wpc = "write"
  /\ device' = Append(device, reportBytes(report, n))
  /\ wpc' = "exited"
  /\ fileOpen' = FALSE
  /\ UNCHANGED << report, keys, cur, synced, taken, handed, prod, calls,
                  held, phase, downs, released >>

\* hid.file.Sync(), then back to the select
WorkerSync ==
  /\ wpc = "sync"
  /\ synced' = synced + 1
  /\ wpc' = "select"
  /\ UNCHANGED << report, keys, cur, fileOpen, device, taken, handed, prod, calls,
                  held, phase, downs, released >>

Next ==
  \/ \E p \in Procs : \E ks \in Keystrokes : StartKeystroke(p, ks)
  \/ \E p \in Procs : \E ev \in RawEvents : StartForward(p, ev)
  \/ \E p \in Procs : StartClose(p)
  \/ \E p \in Procs : RecvEvent(p)
  \/ \E p \in Procs : RecvExit(p)
  \/ WorkerApply
  \/ WorkerWrite
  \/ \E n \in ShortCounts : WorkerShortWrite(n)
  \/ WorkerSync

Spec == Init /\ [][Next]_vars

---------------------------------------------------------------------------
(* Operators the properties are stated with.                               *)

\* the state a call leaves unchanged
Same(rep, k) == [report |-> rep, keys |-> k]

\* the non-zero bytes among report[2..7]
ActiveBytes(rep) == {rep[i] : i \in {j \in 2 .. ReportLen - 1 : rep[j] # 0}}

\* the slots among 2..7 that hold a non-zero byte
ActiveSlots(rep) == {i \in 2 .. ReportLen - 1 : rep[i] # 0}

\* the sum of the (pairwise distinct) modifier bits of a set of modifier codes
RECURSIVE ModifierMask(_)
ModifierMask(codes) ==
  IF codes = {} THEN 0
  ELSE LET c == CHOOSE x \in codes : TRUE
       IN  kb_mod(c) + ModifierMask(codes \ {c})

\* the events of the first n entries of taken
TakenEvents(n) == [i \in 1 .. n |-> taken[i][2]]

\* the events eventWriter received from producer p, in order
RECURSIVE TakenFrom(_, _)
TakenFrom(p, n) ==
  IF n = 0 THEN << >>
  ELSE IF taken[n][1] = p THEN Append(TakenFrom(p, n - 1), taken[n][2])
  ELSE TakenFrom(p, n - 1)

\* the report after updateReport was called on each event of evs, from the zeroed state
RECURSIVE ApplyAll(_)
ApplyAll(evs) ==
  IF evs = << >> THEN Same(ZeroReport, 0)
  ELSE LET before == ApplyAll(SubSeq(evs, 1, Len(evs) - 1))
           ev     == evs[Len(evs)]
       IN  IF updatePanics(before.keys, ev) THEN before
           ELSE updateReport(before.report, before.keys, ev)

\* an 8-byte report with modifier byte m and the given bytes 2..7
ReportOf(m, slots) ==
  << m, 0 >> \o slots \o [i \in 1 .. ReportLen - 2 - Len(slots) |-> 0]

---------------------------------------------------------------------------
(* C1                                                                      *)

\* C1: while no Write has failed and no Close has been received, every event
\* handed to ForwardEvent is received in the order it was handed over, each
\* received event leads to exactly one Write, and the i-th Write carries the
\* report obtained by applying the first i events to the zeroed report.
C1_OneWritePerEventInOrder ==
  wpc # "exited" =>
    /\ \A p \in Procs : TakenFrom(p, Len(taken)) \o prod[p].out = handed[p]
    /\ Len(device) = Len(taken) - (IF wpc \in {"apply", "write"} THEN 1 ELSE 0)
    /\ \A i \in 1 .. Len(device) :
         device[i] = reportBytes(ApplyAll(TakenEvents(i)).report, ReportLen)

---------------------------------------------------------------------------
(* C2 .. C8: the report engine, under SpecReport.                          *)

\* C2: hid.keys is in 0..6, it equals the number of non-zero bytes among
\* report[2..7], and the non-zero bytes are exactly the slots 2 .. 2+keys-1.
C2_ActivePrefix ==
  /\ keys \in 0 .. ReportLen - 2
  /\ keys = Cardinality(ActiveSlots(report))
  /\ ActiveSlots(report) = 2 .. 2 + keys - 1

\* a full report reached after keys were released and pressed again
C2_Witness == keys = ReportLen - 2 /\ phase = "other" /\ report[0] # 0

\* C3 as claimed: an Up for a mapped non-modifier key whose usage ID is not in
\* the active prefix leaves the report and hid.keys unchanged.
C3_UpOfAbsentKeyIsNoop ==
  \A ev \in ReportEvents :
    (IsMappedKey(ev) /\ IsKeyUp(ev) /\ mappingAt(ev.Code) \notin ActiveBytes(report))
      => updateReport(report, keys, ev) = Same(report, keys)

\* C4: after Downs for 6 keys with distinct usage IDs, bytes 2..7 hold exactly
\* those usage IDs and keys = 6; a Down for a 7th distinct usage ID leaves
\* keys = 6, puts the new usage ID in byte 7 and leaves bytes 0..6 as they were.
C4_RolloverCapacity ==
  /\ (phase = "downs" /\ Len(downs) = ReportLen - 2) =>
        /\ keys = ReportLen - 2
        /\ ActiveBytes(report) = Range(downs)
        /\ \A i \in 2 .. ReportLen - 1 : report[i] # 0
  /\ (phase = "downs" /\ Len(downs) = ReportLen - 1) =>
        /\ keys = ReportLen - 2
        /\ report[ReportLen - 1] = downs[ReportLen - 1]
        /\ report[0] = 0 /\ report[1] = 0
        /\ \A i \in 2 .. ReportLen - 2 : report[i] = downs[i - 1]

\* seven Downs of distinct keys have been applied to the zeroed report
C4_Witness == phase = "downs" /\ Len(downs) = ReportLen - 1

\* C5: after N (1..6) Downs of keys with distinct usage IDs and an Up of one of
\* them, the non-zero bytes among report[2..7] are the pressed usage IDs minus
\* the released one, none lost or duplicated, and keys is N - 1.
C5_SwapRemove ==
  phase = "up1" =>
    /\ ActiveBytes(report) = Range(downs) \ {released}
    /\ Cardinality(ActiveSlots(report)) = Len(downs) - 1
    /\ keys = Len(downs) - 1

\* six keys pressed, then one that is not in the last active slot released
C5_Witness ==
  /\ phase = "up1"
  /\ Len(downs) = ReportLen - 2
  /\ released = downs[2]

\* C6: a Down for a non-modifier key whose usage ID is in the active prefix
\* leaves the report and keys unchanged, and no non-zero usage ID occurs in
\* more than one of the bytes 2..7.
C6_DownIsIdempotent ==
  /\ \A ev \in ReportEvents :
       (IsMappedKey(ev) /\ IsKeyDown(ev) /\ findKey(report, keys, mappingAt(ev.Code)) # -1)
         => updateReport(report, keys, ev) = Same(report, keys)
  /\ \A i, j \in ActiveSlots(report) : report[i] = report[j] => i = j
  /\ phase = "redown" =>
       /\ keys = Len(downs)
       /\ \A i \in 1 .. Len(downs) : report[1 + i] = downs[i]
       /\ \A i \in 2 + Len(downs) .. ReportLen - 1 : report[i] = 0

\* six distinct keys pressed, then one of them pressed again
C6_Witness == phase = "redown" /\ Len(downs) = ReportLen - 2

\* C8: report[0] is the OR of the bits of the modifiers whose most recent key
\* event was a Down; repeating a modifier event changes nothing further, and
\* no other event changes report[0].
C8_ModifierByte ==
  /\ report[0] = ModifierMask(held)
  /\ \A ev \in ReportEvents :
       IsModifier(ev) =>
         updateReport(updateReport(report, keys, ev).report, keys, ev)
           = updateReport(report, keys, ev)
  /\ \A ev \in ReportEvents :
       (~IsModifier(ev) /\ ~updatePanics(keys, ev))
         => updateReport(report, keys, ev).report[0] = report[0]

\* both sampled modifiers held while keys are pressed
C8_Witness == held = {KeyLeftCtrl, KeyLeftShift} /\ report[0] = 3 /\ keys > 0

---------------------------------------------------------------------------
(* C7, C9, C10: events travelling through the worker, under Spec.          *)

\* every key event whose code is in mapping, is no modifier and maps to 0
UnmappedEvents ==
  {KeyEv(c, v) : c \in {d \in 0 .. Len(mapping) - 1 : kb_mod(d) = 0 /\ mappingAt(d) = 0},
                 v \in {0, 1}}

\* what the device held before its i-th Write
WrittenBefore(i) == IF i = 1 THEN reportBytes(ZeroReport, ReportLen) ELSE device[i - 1]

\* C7: an event whose code is no modifier and maps to 0 leaves the 8 report
\* bytes and keys unchanged, whatever state the worker receives it in, and does
\* not stop the worker: the event is written like any other and the worker
\* goes on to apply and write later events.
C7_UnmappedDropped ==
  /\ wpc = "select" =>
       \A ev \in UnmappedEvents :
         ~updatePanics(keys, ev) /\ updateReport(report, keys, ev) = Same(report, keys)
  /\ IsUnmappedKey(cur) => wpc # "panicked"
  /\ \A i \in 1 .. Len(device) :
       (IsUnmappedKey(taken[i][2]) /\ Len(device[i]) = ReportLen)
         => device[i] = WrittenBefore(i)
  /\ (IsUnmappedKey(cur) /\ wpc \in {"sync", "select"}) => Len(device) = Len(taken)

\* an unmapped event was written unchanged and a later event changed the report
C7_Witness ==
  \E i \in 1 .. Len(device) - 1 :
    /\ IsUnmappedKey(taken[i][2])
    /\ device[i] = WrittenBefore(i)
    /\ Len(device[i + 1]) = ReportLen
    /\ device[i + 1] # device[i]

\* the rune of keystroke ks has no entry in the table main looks it up in
NoTableEntry(ks) ==
  IF ks[2] THEN ks[1] \notin 1 .. 26
  ELSE /\ ks[1] \notin shiftRunes
       /\ tcelltoev(IF ks[1] >= 65 /\ ks[1] <= 90 THEN ks[1] + 32 ELSE ks[1]) = 0

\* p made the first call of the run, a keystroke producing evs, and every
\* event received so far belongs to it
FirstKeystroke(p, evs) ==
  /\ Len(handed[p]) >= Len(evs)
  /\ SubSeq(handed[p], 1, Len(evs)) = evs
  /\ \A i \in 1 .. Len(taken) : i <= Len(evs) => taken[i][1] = p

\* C9 as claimed: a keystroke whose rune is in no applicable table is dropped
\* by the unmapped-code path: no report written for it has a non-zero byte
\* among bytes 2..7.
C9_UnknownRuneIsDropped ==
  \A p \in Procs : \A ks \in Keystrokes :
    (NoTableEntry(ks) /\ FirstKeystroke(p, keystrokeEvents(ks[1], ks[2]))) =>
      \A i \in 1 .. Len(device) :
        i <= Len(keystrokeEvents(ks[1], ks[2])) =>
          \A j \in 3 .. Len(device[i]) : device[i][j] = 0

\* Down(LeftCtrl), Down(KeyC), Up(KeyC), Up(LeftCtrl)
CtrlCEvents == << KeyEv(29, 1), KeyEv(46, 1), KeyEv(46, 0), KeyEv(29, 0) >>

\* the reports C10 expects for them
CtrlCReports ==
  << ReportOf(1, << >>), ReportOf(1, << 6 >>), ReportOf(1, << >>), ReportOf(0, << >>) >>

\* C10: the keystroke Ctrl-C (rune tcell.KeyCtrlC, control held) is forwarded
\* as Down(LeftCtrl), Down(KeyC), Up(KeyC), Up(LeftCtrl), and from the zeroed
\* report the four Writes carry modifiers 0x01 and no key, 0x01 and key 6,
\* 0x01 and no key, 0 and no key.
C10_CtrlC ==
  /\ keystrokeEvents(3, TRUE) = CtrlCEvents
  /\ \A p \in Procs :
       FirstKeystroke(p, keystrokeEvents(3, TRUE)) =>
         \A i \in 1 .. Len(device) :
           i <= 4 => device[i] = SubSeq(CtrlCReports[i], 1, Len(device[i]))

\* all four reports of a Ctrl-C keystroke were written in full
C10_Witness ==
  \E p \in Procs :
    /\ FirstKeystroke(p, keystrokeEvents(3, TRUE))
    /\ Len(device) >= 4
    /\ \A i \in 1 .. 4 : device[i] = CtrlCReports[i]

---------------------------------------------------------------------------
(* C11 .. C13                                                              *)

\* the runes the shape of a keystroke is checked for
RuneSample == 0 .. 300

\* the wrapping modifier C11 names for a keystroke, 0 for none
PulseModifier(r, ctrl) ==
  IF ctrl THEN KeyLeftCtrl
  ELSE IF r \in shiftRunes \/ (r >= 65 /\ r <= 90) THEN KeyLeftShift
  ELSE 0

\* the base code C11 names for a keystroke
PulseBase(r, ctrl) ==
  IF ctrl THEN tcellctrltoev(r)
  ELSE IF r \in shiftRunes THEN tcellshiftokey(r)
  ELSE IF r >= 65 /\ r <= 90 THEN tcelltoev(r + 32)
  ELSE tcelltoev(r)

\* Down(base), Up(base), wrapped in Down(M) .. Up(M) when there is a modifier M
Pulse(m, base) ==
  IF m = 0 THEN << KeyEv(base, 1), KeyEv(base, 0) >>
  ELSE << KeyEv(m, 1), KeyEv(base, 1), KeyEv(base, 0), KeyEv(m, 0) >>

\* evs is a concatenation of the event lists of sampled keystrokes
RECURSIVE IsKeystrokeSeq(_)
IsKeystrokeSeq(evs) ==
  \/ evs = << >>
  \/ \E ks \in Keystrokes :
       LET one == keystrokeEvents(ks[1], ks[2])
       IN  /\ Len(evs) >= Len(one)
           /\ SubSeq(evs, 1, Len(one)) = one
           /\ IsKeystrokeSeq(SubSeq(evs, Len(one) + 1, Len(evs)))

\* C11: every keystroke is forwarded as Down(base), Up(base), wrapped in
\* Down/Up of LeftShift for an upper-case letter (looked up in lower case) or a
\* shifted-punctuation rune and of LeftCtrl for a control chord; and after any
\* sequence of keystrokes of one producer has been processed, the report is
\* all-zero again.
C11_CompletePulses ==
  /\ calls = 0 =>
       \A r \in RuneSample : \A ctrl \in BOOLEAN :
         keystrokeEvents(r, ctrl) = Pulse(PulseModifier(r, ctrl), PulseBase(r, ctrl))
  /\ \A p \in Procs :
       ( /\ \A q \in Procs \ {p} : handed[q] = << >>
         /\ prod[p].pc = "idle"
         /\ Len(taken) = Len(handed[p])
         /\ wpc \notin {"apply", "panicked"}
         /\ IsKeystrokeSeq(handed[p]) )
       => (report = ZeroReport /\ keys = 0)

\* two keystrokes of one producer, one of them shifted, were written in full
C11_Witness ==
  \E p \in Procs :
    /\ Len(handed[p]) >= 6
    /\ IsKeystrokeSeq(handed[p])
    /\ \E i \in 1 .. Len(handed[p]) : handed[p][i] = KeyEv(KeyLeftShift, 0)
    /\ synced = Len(handed[p])
    /\ report = ZeroReport

\* C12: a Write that accepts fewer than 8 bytes ends the worker loop: it is the
\* last Write, it is not followed by a Sync, no further event is received and
\* the report is not touched again.
C12_ShortWriteIsFatal ==
  \A i \in 1 .. Len(device) :
    Len(device[i]) < ReportLen =>
      /\ i = Len(device)
      /\ wpc = "exited"
      /\ Len(taken) = i
      /\ synced = i - 1
      /\ device[i] = reportBytes(report, Len(device[i]))

\* a Write failed while a producer still had events to hand over
C12_Witness ==
  /\ Len(device) >= 1
  /\ Len(device[Len(device)]) < ReportLen
  /\ \E p \in Procs : prod[p].pc = "send"

\* C13: at most one event is in flight: every event handed to ForwardEvent is
\* either still with its blocked producer or was received by the worker, and
\* the worker receives an event only after the previous one was applied,
\* written and flushed.
C13_OneEventInFlight ==
  /\ \A p \in Procs : TakenFrom(p, Len(taken)) \o prod[p].out = handed[p]
  /\ Len(taken) <= synced + 1
  /\ wpc = "apply" => (synced = Len(taken) - 1 /\ Len(device) = Len(taken) - 1)
  /\ wpc = "select" => (synced = Len(taken) /\ Len(device) = Len(taken))

\* two producers are blocked in ForwardEvent while the worker handles an event
C13_Witness ==
  /\ \A p \in Procs : prod[p].pc = "send"
  /\ wpc = "write"
  /\ Len(taken) = 1

---------------------------------------------------------------------------
(* C14 .. C20                                                              *)

\* some caller's Close has returned
CloseReturned == \E p \in Procs : prod[p].pc = "returned"

\* some Write was refused in part
ShortWritten == \E i \in 1 .. Len(device) : Len(device[i]) < ReportLen

\* what the device received last, the zeroed report before the first Write
LastWritten == WrittenBefore(Len(device) + 1)

\* C14: Close returns only once the worker has received the shutdown signal,
\* and from then on the worker receives no event, does not change the report
\* and does not write.
C14_ClosedIsTerminal ==
  /\ [](CloseReturned => wpc = "exited")
  /\ [][CloseReturned => UNCHANGED << wpc, taken, report, keys, device, synced >>]_vars

\* Close has returned while another producer is still blocked in ForwardEvent
C14_Witness ==
  /\ CloseReturned
  /\ \E p \in Procs : prod[p].pc = "send"
  /\ Len(device) >= 1

\* C15: with a ForwardEvent and a Close pending while the worker waits in its
\* select, both cases of the select can be taken: the event may be received
\* (and is then applied and written) or the worker may exit without it.
C15_SelectRace ==
  \A p, q \in Procs :
    (wpc = "select" /\ prod[p].pc = "send" /\ prod[q].pc = "close")
      => (ENABLED RecvEvent(p) /\ ENABLED RecvExit(q))

\* the worker exited on Close and left the pending event of the other producer
C15_Witness ==
  \E p, q \in Procs :
    /\ prod[q].pc = "returned"
    /\ prod[p].pc = "send"
    /\ taken = << >>
    /\ wpc = "exited"

\* C16 as claimed: no lookup made by updateReport aborts the worker, whatever
\* the event code.
C16_LookupsTotal == wpc # "panicked"

C18_NoCallerStuck ==
  \A p \in Procs : prod[p].pc \in {"send", "close"} => wpc # "exited"

\* C19: the shutdown signal is taken only between events: when Close has
\* returned every received event was written and flushed, and unless a Write
\* fell short the device holds the worker's report whenever the worker is not
\* between updateReport and Write.
C19_ExitBetweenEvents ==
  /\ CloseReturned => (Len(device) = Len(taken) /\ synced = Len(taken))
  /\ (~ShortWritten /\ wpc # "write") => LastWritten = reportBytes(report, ReportLen)

\* Close returned after an event that changed the report was written
C19_Witness ==
  /\ CloseReturned
  /\ Len(taken) >= 1
  /\ report # ZeroReport

\* the last event of taken that carries the code of its i-th event is an Up
LastIsUp(i) ==
  \A j \in i .. Len(taken) :
    (taken[j][2].Code = taken[i][2].Code /\ \A k \in j + 1 .. Len(taken) : taken[k][2].Code # taken[i][2].Code)
      => IsKeyUp(taken[j][2])

\* C20 as claimed: once every event of a sequence over mapped keys has been
\* applied and the last event of each key is an Up, the report is all-zero and
\* keys is 0.
C20_NoStuckKey ==
  ( /\ wpc \in {"sync", "select"}
    /\ \A i \in 1 .. Len(taken) : IsMappedKey(taken[i][2]) /\ LastIsUp(i) )
  => (report = ZeroReport /\ keys = 0)

===========================================================================
